---- MODULE Spec2Model ----
(***************************************************************************)
(* Invoice QA assistant (cloudlamptech/invoice-qa): the Streamlit session   *)
(* of app.py (Process Documents, Get Answer, Reset Session) over the        *)
(* chunker of pdf_reader.py, the embedding adapter and similarity scorer of *)
(* embeddings.py and the retrieval of query.py.                             *)
(*                                                                          *)
(* A text is a string.  A similarity score is the exact real               *)
(* dot/(|a||b|); floating-point rounding is not modelled.                   *)
(***************************************************************************)
EXTENDS Integers, Sequences, FiniteSets

VARIABLES
    chunks_set,      \* 'chunks' in st.session_state
    chunks,          \* st.session_state.chunks (<<>> while the key is absent)
    query_count,     \* st.session_state.query_count
    uploaded_count,  \* st.session_state.uploaded_count
    last             \* what the last script run did (observation only)

vars == <<chunks_set, chunks, query_count, uploaded_count, last>>

----------------------------------------------------------------------------
(* Limits and defaults of the program *)

MAX_QUERIES_PER_SESSION == 10
MAX_FILES_PER_UPLOAD == 3
MAX_FILE_SIZE_MB == 5
MAX_CHUNKS_TOTAL == 50
BYTES_PER_MB == 1048576
MIN_TEXT_LENGTH == 50
MIN_QUESTION_LENGTH == 5
DEFAULT_CHUNK_SIZE == 500
DEFAULT_OVERLAP == 50
TOP_K == 3

(* Bounds of the model *)

\* a bulk document spans BulkStrides full strides of the chunker and one
\* character more, so it yields BulkStrides + 1 chunks
BulkStrides == 25

\* the largest corpus and the largest top_k of the retrieval on its own
MaxCorpus == 3
MaxTopK == 4

\* the longest text, the largest chunk_size and the largest overlap of the
\* chunker on its own
MaxTextLen == 5
MaxChunkSize == 3

\* the largest coordinate of a vector of the similarity scorer on its own
MaxCoord == 2

----------------------------------------------------------------------------
(* Python built-ins used by the program *)

Min(a, b) == IF a < b THEN a ELSE b
Max(a, b) == IF a > b THEN a ELSE b

\* text[i], counted from 1
CharAt(text, i) == SubSeq(text, i, i)

Whitespace == {" ", "\t", "\n", "\r"}

\* text[start:end]
PySlice(text, start, end) ==
    LET n == Len(text)
        s == IF start < 0 THEN Max(start + n, 0) ELSE Min(start, n)
        e == IF end < 0 THEN Max(end + n, 0) ELSE Min(end, n)
    IN  SubSeq(text, s + 1, e)

RECURSIVE FirstNonWs(_, _)
FirstNonWs(text, i) ==
    IF i > Len(text) THEN i
    ELSE IF CharAt(text, i) \notin Whitespace THEN i
    ELSE FirstNonWs(text, i + 1)

RECURSIVE LastNonWs(_, _)
LastNonWs(text, i) ==
    IF i < 1 THEN i
    ELSE IF CharAt(text, i) \notin Whitespace THEN i
    ELSE LastNonWs(text, i - 1)

\* text.strip()
strip(text) ==
    SubSeq(text, FirstNonWs(text, 1), LastNonWs(text, Len(text)))

\* text.replace("\n", " ")
RECURSIVE ReplaceNewlines(_)
ReplaceNewlines(text) ==
    LET n == Len(text)
        h == n \div 2
    IN  IF n = 0 THEN text
        ELSE IF n = 1 THEN (IF text = "\n" THEN " " ELSE text)
        ELSE ReplaceNewlines(SubSeq(text, 1, h))
                 \o ReplaceNewlines(SubSeq(text, h + 1, n))

----------------------------------------------------------------------------
(* pdf_reader.py *)

RECURSIVE Repeat(_, _)
Repeat(s, n) ==
    IF n = 0 THEN ""
    ELSE IF n % 2 = 1 THEN s \o Repeat(s, n - 1)
    ELSE LET half == Repeat(s, n \div 2) IN half \o half

Phrases == << "alpha bravo cargo delta ", "bravo cargo delta alpha ",
              "cargo delta alpha bravo ", "delta alpha bravo cargo " >>

\* a page of n characters of running text
PageText(n, seed) ==
    LET phrase == Phrases[seed]
    IN  SubSeq(Repeat(phrase, (n \div Len(phrase)) + 1), 1, n)

BulkLen == BulkStrides * (DEFAULT_CHUNK_SIZE - DEFAULT_OVERLAP)

\* A PDF file as uploaded: its name, its size in bytes, the text of its
\* pages, and whether the PDF library can read it.
Pdf(name, size, pages, readable) ==
    [name |-> name, size |-> size, pages |-> pages, readable |-> readable]

\* one chunk
DocA == Pdf("a.pdf", 20000, <<PageText(60, 1)>>, TRUE)
\* two chunks, of the largest size allowed
DocB == Pdf("b.pdf", 5242880, <<PageText(300, 2), PageText(300, 3)>>, TRUE)
\* 49 characters between blanks: too little text
DocScan == Pdf("scan.pdf", 90000, << "  " \o PageText(49, 1) \o " " >>, TRUE)
DocBroken == Pdf("broken.pdf", 700, <<PageText(80, 1)>>, FALSE)
\* one byte over the size limit
DocHuge == Pdf("huge.pdf", 5242881, <<PageText(70, 4)>>, TRUE)
\* BulkStrides + 1 chunks
DocBulk1 == Pdf("bulk1.pdf", 400000, <<PageText(BulkLen + 5, 1)>>, TRUE)
\* BulkStrides chunks: the last window holds the final line break only
DocBulk2 == Pdf("bulk2.pdf", 400000, <<PageText(BulkLen - 1, 3), "">>, TRUE)

RECURSIVE JoinPages(_, _)
JoinPages(pages, text) ==
    IF pages = <<>> THEN text
    ELSE JoinPages(Tail(pages), text \o Head(pages) \o "\n")

extract_text_from_pdf(file) ==
    IF file.readable THEN JoinPages(file.pages, "") ELSE ""

RECURSIVE chunk_loop(_, _, _, _, _)
chunk_loop(text, chunk_size, overlap, start, chunks_acc) ==
    IF ~(start < Len(text)) THEN chunks_acc
    ELSE LET end == start + chunk_size
             chunk == PySlice(text, start, end)
         IN  chunk_loop(text, chunk_size, overlap,
                        start + (chunk_size - overlap),
                        IF strip(chunk) # "" THEN Append(chunks_acc, chunk)
                        ELSE chunks_acc)

\* (mutant) the first window is passed over
chunk_text_from_second_window(text, chunk_size, overlap) ==
    chunk_loop(text, chunk_size, overlap, chunk_size - overlap, <<>>)

chunk_text(text, chunk_size, overlap) ==
    chunk_loop(text, chunk_size, overlap, 0, <<>>)

----------------------------------------------------------------------------
(* embeddings.py *)

\* The remote embedding model: an opaque, fixed function from the text sent
\* to it to a vector.  Here the vector is decided by the first character.
EmbeddingModel(text) ==
    LET c == CharAt(text, 1)
    IN  CASE c = "a" -> <<1, 0>>
          [] c = "b" -> <<1, 1>>
          [] c = "c" -> <<0, 1>>
          [] c = "d" -> <<-1, 1>>
          [] OTHER   -> <<2, 1>>

\* get_embedding: provider_ok says whether the remote call succeeds; a
\* failure is re-raised as RuntimeError.
get_embedding(text, provider_ok) ==
    LET sent == ReplaceNewlines(text)
    IN  IF provider_ok THEN [ok |-> TRUE, embedding |-> EmbeddingModel(sent)]
        ELSE [ok |-> FALSE, embedding |-> <<>>]

RECURSIVE DotFrom(_, _, _)
DotFrom(vec1, vec2, i) ==
    IF i > Len(vec1) THEN 0
    ELSE vec1[i] * vec2[i] + DotFrom(vec1, vec2, i + 1)

\* np.dot of two vectors of the same length
Dot(vec1, vec2) == DotFrom(vec1, vec2, 1)

\* The real number sign(num) * sqrt(|num| / den), den > 0.
Score(num, den) == [num |-> num, den |-> den]
ScoreLess(a, b) == a.num * b.den < b.num * a.den
ScoreEq(a, b) == a.num * b.den = b.num * a.den
ScoreZero == Score(0, 1)

\* (mutant) only the first vector is tested for magnitude zero
cosine_similarity_tests_first_only(vec1, vec2) ==
    IF Dot(vec1, vec1) = 0 THEN [ok |-> FALSE, score |-> ScoreZero]
    ELSE [ok |-> TRUE,
          score |-> Score(Dot(vec1, vec2) * Dot(vec1, vec2),
                          Dot(vec1, vec1) * Dot(vec2, vec2))]

\* cosine_similarity: dot / (|vec1| * |vec2|), kept exact as the signed
\* square dot*|dot| / (|vec1|^2 * |vec2|^2); ValueError when a vector has
\* magnitude zero, or when np.dot refuses vectors of different lengths.
cosine_similarity(vec1, vec2) ==
    IF Len(vec1) # Len(vec2) THEN [ok |-> FALSE, score |-> ScoreZero]
    ELSE LET dot_product == Dot(vec1, vec2)
             magnitude_sq == Dot(vec1, vec1) * Dot(vec2, vec2)
         IN  IF magnitude_sq = 0 THEN [ok |-> FALSE, score |-> ScoreZero]
             ELSE [ok |-> TRUE,
                   score |-> Score(IF dot_product < 0
                                   THEN 0 - dot_product * dot_product
                                   ELSE dot_product * dot_product,
                                   magnitude_sq)]

----------------------------------------------------------------------------
(* query.py *)

\* STEP 2: the loop appending the score of every chunk, in corpus order
RECURSIVE similarities_from(_, _, _, _)
similarities_from(question_embedding, all_chunks, i, similarities) ==
    IF i > Len(all_chunks) THEN similarities
    ELSE LET r == cosine_similarity(question_embedding, all_chunks[i].embedding)
         IN  similarities_from(question_embedding, all_chunks, i + 1,
                 Append(similarities,
                        [chunk |-> all_chunks[i], ok |-> r.ok, score |-> r.score]))

similarities_of(question_embedding, all_chunks) ==
    similarities_from(question_embedding, all_chunks, 1, <<>>)

\* (mutant) the item goes before the items of equal score
RECURSIVE insert_position_before_equal(_, _, _)
insert_position_before_equal(sorted, item, i) ==
    IF i > Len(sorted) THEN i
    ELSE IF ~ScoreLess(item.score, sorted[i].score) THEN i
    ELSE insert_position_before_equal(sorted, item, i + 1)

\* where list.sort(reverse=True) puts an item among the items before it:
\* behind every item whose score is not smaller (the sort is stable)
RECURSIVE insert_position(_, _, _)
insert_position(sorted, item, i) ==
    IF i > Len(sorted) THEN i
    ELSE IF ScoreLess(sorted[i].score, item.score) THEN i
    ELSE insert_position(sorted, item, i + 1)

insert_sorted(sorted, item) ==
    LET p == insert_position(sorted, item, 1)
    IN  SubSeq(sorted, 1, p - 1) \o <<item>> \o SubSeq(sorted, p, Len(sorted))

RECURSIVE sort_from(_, _, _)
sort_from(items, i, sorted) ==
    IF i > Len(items) THEN sorted
    ELSE sort_from(items, i + 1, insert_sorted(sorted, items[i]))

\* similarities.sort(key=lambda x: x['score'], reverse=True)
sort_by_score_desc(items) == sort_from(items, 1, <<>>)

\* STEP 3: similarities[:top_k] of the sorted list
top_chunks_of(similarities, top_k) ==
    PySlice(sort_by_score_desc(similarities), 0, top_k)

\* STEPS 2 and 3; a ValueError of cosine_similarity ends them
retrieve(question_embedding, all_chunks, top_k) ==
    LET similarities == similarities_of(question_embedding, all_chunks)
    IN  IF \E i \in DOMAIN similarities : ~similarities[i].ok
        THEN [ok |-> FALSE, top_chunks |-> <<>>]
        ELSE [ok |-> TRUE, top_chunks |-> top_chunks_of(similarities, top_k)]

\* what the prompt is built from: the retrieved chunks, best first
context_of(top_chunks) ==
    [i \in DOMAIN top_chunks |->
        [source |-> top_chunks[i].chunk.source,
         chunk_id |-> top_chunks[i].chunk.chunk_id]]

\* answer_question: embed_ok and chat_ok say whether the two remote calls
\* succeed.  An exception leaves through the caller, and nothing is then
\* returned; retrieved is the context of the answer returned.
answer_question(question, all_chunks, top_k, embed_ok, chat_ok) ==
    LET q == get_embedding(question, embed_ok)
        r == retrieve(q.embedding, all_chunks, top_k)
    IN  IF ~q.ok
        THEN [outcome |-> "embedding_error", embed_calls |-> 1,
              chat_calls |-> 0, retrieved |-> <<>>]
        ELSE IF ~r.ok
        THEN [outcome |-> "similarity_error", embed_calls |-> 1,
              chat_calls |-> 0, retrieved |-> <<>>]
        ELSE IF ~chat_ok
        THEN [outcome |-> "chat_error", embed_calls |-> 1,
              chat_calls |-> 1, retrieved |-> <<>>]
        ELSE [outcome |-> "answer", embed_calls |-> 1,
              chat_calls |-> 1, retrieved |-> context_of(r.top_chunks)]

----------------------------------------------------------------------------
(* app.py *)

\* What one run of the script did, for the properties below: the handler
\* that ran, how it ended, its input (the selection or the question), the
\* length of all_chunks, and the calls made to the PDF library and to the
\* remote providers.
Observation(op, outcome, input, n_chunks, extract_calls, embed_calls, chat_calls, retrieved) ==
    [op |-> op, outcome |-> outcome, input |-> input, n_chunks |-> n_chunks,
     extract_calls |-> extract_calls, embed_calls |-> embed_calls,
     chat_calls |-> chat_calls, retrieved |-> retrieved]

\* Process Documents is disabled, and the uploader hidden
upload_disabled(count) == count >= MAX_FILES_PER_UPLOAD

\* (mutant) one file too many is let through
too_many_files_off_by_one(uploaded_files) ==
    Len(uploaded_files) > MAX_FILES_PER_UPLOAD + 1

\* Validation 1
too_many_files(uploaded_files) == Len(uploaded_files) > MAX_FILES_PER_UPLOAD

\* Validation 2: size_mb = f.size / (1024 * 1024) > MAX_FILE_SIZE_MB
is_oversized(f) == f.size > MAX_FILE_SIZE_MB * BYTES_PER_MB
oversized_files(uploaded_files) == SelectSeq(uploaded_files, is_oversized)

\* (mutant) any text at all is enough
has_text_of_any_length(text) == ~(text = "")

\* Validation 3: not (not text or len(text.strip()) < 50)
has_text(text) == ~(text = "" \/ Len(strip(text)) < MIN_TEXT_LENGTH)

\* the chunks one file adds to all_chunks
file_chunks(uploaded_file) ==
    LET text == extract_text_from_pdf(uploaded_file)
        pieces == chunk_text(text, DEFAULT_CHUNK_SIZE, DEFAULT_OVERLAP)
    IN  IF ~has_text(text) THEN <<>>
        ELSE [i \in DOMAIN pieces |->
                [text |-> pieces[i], source |-> uploaded_file.name,
                 chunk_id |-> i - 1]]

\* the loop over uploaded_files
RECURSIVE collect_chunks(_, _)
collect_chunks(uploaded_files, all_chunks) ==
    IF uploaded_files = <<>> THEN all_chunks
    ELSE collect_chunks(Tail(uploaded_files),
                        all_chunks \o file_chunks(Head(uploaded_files)))

\* (mutant) one chunk too many is let through
too_much_content_off_by_one(all_chunks) ==
    Len(all_chunks) > MAX_CHUNKS_TOTAL + 1

\* Validation 4
too_much_content(all_chunks) == Len(all_chunks) > MAX_CHUNKS_TOTAL

\* chunk['embedding'] = get_embedding(chunk['text']), the call succeeding
embed_chunk(chunk) ==
    [text |-> chunk.text, source |-> chunk.source, chunk_id |-> chunk.chunk_id,
     embedding |-> get_embedding(chunk.text, TRUE).embedding]

\* (mutant) the loop stops one chunk short
embed_loop_leaves_last(all_chunks, embedded, fail_at) ==
    [raised |-> fail_at # 0,
     embed_calls |-> IF fail_at = 0 THEN Len(all_chunks) - 1 ELSE fail_at,
     all_chunks |-> [i \in DOMAIN all_chunks |->
                        IF (fail_at = 0 \/ i < fail_at) /\ i < Len(all_chunks)
                        THEN embedded[i]
                        ELSE all_chunks[i]]]

\* The embedding loop, the provider failing at call fail_at (0: never):
\* whether the exception left the loop, the calls made, and all_chunks as
\* the loop leaves it.  embedded[i] is embed_chunk(all_chunks[i]).
embed_loop(all_chunks, embedded, fail_at) ==
    [raised |-> fail_at # 0,
     embed_calls |-> IF fail_at = 0 THEN Len(all_chunks) ELSE fail_at,
     all_chunks |-> [i \in DOMAIN all_chunks |->
                        IF fail_at = 0 \/ i < fail_at THEN embedded[i]
                        ELSE all_chunks[i]]]

\* st.session_state.chunks = all_chunks
stored_chunks(session_chunks, all_chunks) == all_chunks

\* (mutant) the assignment is made although the loop was left early
chunks_after_loop_partial(session_chunks, loop) ==
    stored_chunks(session_chunks, loop.all_chunks)

\* st.session_state.chunks once the loop is over: the assignment follows
\* the loop, and an exception leaves the script before it
chunks_after_loop(session_chunks, loop) ==
    IF loop.raised THEN session_chunks
    ELSE stored_chunks(session_chunks, loop.all_chunks)

\* st.session_state.uploaded_count += len(uploaded_files)
counted_uploads(count, uploaded_files) == count + Len(uploaded_files)

\* the selections of the file uploader
UploadList ==
    << <<>>, <<DocA>>, <<DocB>>, <<DocA, DocB>>,
       <<DocBroken, DocScan>>, <<DocA, DocScan, DocB>>,
       <<DocA, DocB, DocScan, DocBroken>>, <<DocA, DocHuge>>,
       <<DocBulk1>>, <<DocBulk2>>, <<DocBulk1, DocBulk2>> >>

\* all_chunks of each selection, and each of its chunks embedded (neither
\* depends on the session)
pending_chunks ==
    [u \in DOMAIN UploadList |-> collect_chunks(UploadList[u], <<>>)]
embedded_chunks ==
    [u \in DOMAIN UploadList |->
        [i \in DOMAIN pending_chunks[u] |-> embed_chunk(pending_chunks[u][i])]]

\* the embedding call of a batch of n chunks at which the provider fails
\* (0: at none): the first, a middle one, the last
FailPoints(n) == {0} \cup ({1, (n + 1) \div 2, n} \cap (1..n))

SessionUnchanged == UNCHANGED <<chunks_set, chunks, query_count, uploaded_count>>

ProcessDocuments ==
    \E u \in DOMAIN UploadList :
        LET uploaded_files == UploadList[u]
            all_chunks == pending_chunks[u]
            n == Len(all_chunks)
            m == Len(uploaded_files)
        IN  IF upload_disabled(uploaded_count)
            THEN /\ SessionUnchanged
                 /\ last' = Observation("ingest", "upload_limit", u, 0, 0, 0, 0, <<>>)
            ELSE IF uploaded_files = <<>>
            THEN /\ SessionUnchanged
                 /\ last' = Observation("ingest", "no_files", u, 0, 0, 0, 0, <<>>)
            ELSE IF too_many_files(uploaded_files)
            THEN /\ SessionUnchanged
                 /\ last' = Observation("ingest", "too_many_files", u, 0, 0, 0, 0, <<>>)
            ELSE IF oversized_files(uploaded_files) # <<>>
            THEN /\ SessionUnchanged
                 /\ last' = Observation("ingest", "files_too_large", u, 0, 0, 0, 0, <<>>)
            ELSE IF too_much_content(all_chunks)
            THEN /\ SessionUnchanged
                 /\ last' = Observation("ingest", "too_much_content", u, n, m, 0, 0, <<>>)
            ELSE IF n = 0
            THEN /\ SessionUnchanged
                 /\ last' = Observation("ingest", "no_valid_content", u, n, m, 0, 0, <<>>)
            ELSE \E fail_at \in FailPoints(n) :
                    LET loop == embed_loop(all_chunks, embedded_chunks[u], fail_at)
                    IN  /\ chunks' = chunks_after_loop(chunks, loop)
                        /\ chunks_set' = (chunks_set \/ ~loop.raised)
                        /\ uploaded_count' =
                              IF loop.raised THEN uploaded_count
                              ELSE counted_uploads(uploaded_count, uploaded_files)
                        /\ query_count' = query_count
                        /\ last' = Observation("ingest",
                                       IF loop.raised THEN "embedding_error"
                                       ELSE "processed",
                                       u, n, m, loop.embed_calls, 0, <<>>)

\* what is typed into the question box (at most 200 characters)
Questions == { "", " tax   ", "a tax", " due when" }

\* what the remote providers do during one run
ProviderModes == { "up", "embedding_down", "chat_down" }

\* (mutant) the button is disabled one query late
answer_disabled_late(count) == count > MAX_QUERIES_PER_SESSION

\* the Get Answer button is disabled
answer_disabled(count) == count >= MAX_QUERIES_PER_SESSION

\* (mutant) the question is measured untrimmed
question_too_short_untrimmed(question) == Len(question) < MIN_QUESTION_LENGTH

\* len(question.strip()) < 5
question_too_short(question) == Len(strip(question)) < MIN_QUESTION_LENGTH

\* st.session_state.query_count += 1
counted_query(count) == count + 1

\* (mutant) the increment follows answer_question
count_after_answer_on_success(count, outcome) ==
    IF outcome = "answer" THEN counted_query(count) ELSE count

\* st.session_state.query_count when the run ends: the increment precedes
\* answer_question, whose exceptions leave it in place
count_after_answer(count, outcome) == counted_query(count)

\* (mutant) a provider error empties the index
GetAnswerClearsIndexOnError ==
    \E question \in Questions, provider \in ProviderModes :
        IF ~chunks_set \/ answer_disabled(query_count)
           \/ question_too_short(question)
        THEN /\ SessionUnchanged
             /\ last' = Observation("ask", "rejected", question, 0, 0, 0, 0, <<>>)
        ELSE LET r == answer_question(question, chunks, TOP_K,
                                      provider # "embedding_down",
                                      provider # "chat_down")
             IN  /\ query_count' = count_after_answer(query_count, r.outcome)
                 /\ chunks' = IF r.outcome = "answer" THEN chunks ELSE <<>>
                 /\ UNCHANGED <<chunks_set, uploaded_count>>
                 /\ last' = Observation("ask", r.outcome, question, 0, 0,
                                        r.embed_calls, r.chat_calls, r.retrieved)

GetAnswer ==
    \E question \in Questions, provider \in ProviderModes :
        IF ~chunks_set
        THEN /\ SessionUnchanged
             /\ last' = Observation("ask", "no_index", question, 0, 0, 0, 0, <<>>)
        ELSE IF answer_disabled(query_count)
        THEN /\ SessionUnchanged
             /\ last' = Observation("ask", "query_limit", question, 0, 0, 0, 0, <<>>)
        ELSE IF question = ""
        THEN /\ SessionUnchanged
             /\ last' = Observation("ask", "no_question", question, 0, 0, 0, 0, <<>>)
        ELSE IF question_too_short(question)
        THEN /\ SessionUnchanged
             /\ last' = Observation("ask", "question_too_short", question, 0, 0, 0, 0, <<>>)
        ELSE LET r == answer_question(question, chunks, TOP_K,
                                      provider # "embedding_down",
                                      provider # "chat_down")
             IN  /\ query_count' = count_after_answer(query_count, r.outcome)
                 /\ UNCHANGED <<chunks_set, chunks, uploaded_count>>
                 /\ last' = Observation("ask", r.outcome, question, 0, 0,
                                        r.embed_calls, r.chat_calls, r.retrieved)

\* (mutant) only the index is deleted
ResetSessionKeepsCounters ==
    /\ chunks_set' = FALSE
    /\ chunks' = <<>>
    /\ UNCHANGED <<query_count, uploaded_count>>
    /\ last' = [op |-> "reset", outcome |-> "reset", input |-> 0, n_chunks |-> 0,
                extract_calls |-> 0, embed_calls |-> 0, chat_calls |-> 0,
                retrieved |-> <<>>]

\* Reset Session: every key is deleted and the script runs again from the
\* top, which sets the two counters to 0
ResetSession ==
    /\ chunks_set' = FALSE
    /\ chunks' = <<>>
    /\ query_count' = 0
    /\ uploaded_count' = 0
    /\ last' = Observation("reset", "reset", 0, 0, 0, 0, 0, <<>>)

Init ==
    /\ chunks_set = FALSE
    /\ chunks = <<>>
    /\ query_count = 0
    /\ uploaded_count = 0
    /\ last = Observation("start", "start", 0, 0, 0, 0, 0, <<>>)

Next == ProcessDocuments \/ GetAnswer \/ ResetSession

Spec == Init /\ [][Next]_vars

----------------------------------------------------------------------------
(* Retrieval (query.py, steps 2 and 3) on its own: a corpus of up to       *)
(* MaxCorpus embedded chunks, a question embedding and a top_k.            *)

RetrievalVectors == { <<1, 0>>, <<1, 1>>, <<2, 2>>, <<-1, 1>>, <<0, 0>> }

corpus_of(embeddings) ==
    [i \in DOMAIN embeddings |->
        [text |-> "", source |-> "corpus", chunk_id |-> i - 1,
         embedding |-> embeddings[i]]]

Corpora ==
    { corpus_of(e) : e \in UNION { [1..n -> RetrievalVectors] : n \in 0..MaxCorpus } }

InitRetrieve ==
    /\ chunks \in Corpora
    /\ chunks_set = TRUE
    /\ query_count = 0
    /\ uploaded_count = 0
    /\ last = Observation("start", "start", 0, 0, 0, 0, 0, <<>>)

Retrieve ==
    \E question_embedding \in RetrievalVectors, top_k \in 0..MaxTopK :
        LET r == retrieve(question_embedding, chunks, top_k)
        IN  /\ SessionUnchanged
            /\ last' = [op |-> "retrieve", ok |-> r.ok,
                        question_embedding |-> question_embedding,
                        top_k |-> top_k, top_chunks |-> r.top_chunks]

SpecRetrieve == InitRetrieve /\ [][Retrieve]_vars

----------------------------------------------------------------------------
(* answer_question (query.py) on its own: called as a function, over a     *)
(* corpus of up to MaxCorpus embedded chunks, the empty one included.      *)

AnswerQuestion ==
    \E question \in Questions \ {""}, provider \in ProviderModes :
        LET r == answer_question(question, chunks, TOP_K,
                                 provider # "embedding_down",
                                 provider # "chat_down")
        IN  /\ SessionUnchanged
            /\ last' = Observation("answer_question", r.outcome, question,
                                   Len(chunks), 0, r.embed_calls, r.chat_calls,
                                   r.retrieved)

SpecAnswer == InitRetrieve /\ [][AnswerQuestion]_vars

----------------------------------------------------------------------------
(* chunk_text (pdf_reader.py) on its own: a text of up to MaxTextLen       *)
(* characters, a chunk_size of 1..MaxChunkSize, an overlap of              *)
(* 0..MaxChunkSize.                                                        *)

RECURSIVE TextsOfLen(_)
TextsOfLen(n) ==
    IF n = 0 THEN {""}
    ELSE { t \o c : t \in TextsOfLen(n - 1), c \in {"a", " "} }

Texts == UNION { TextsOfLen(n) : n \in 0..MaxTextLen }

\* Whether the while loop of chunk_text ever ends.  start grows by
\* chunk_size - overlap on every pass and nothing else changes it or
\* len(text): the loop is not entered when the text is empty, it ends when
\* the stride is positive, and otherwise start < len(text) stays true (the
\* list of chunks growing as long as memory lasts).
chunk_text_returns(text, chunk_size, overlap) ==
    \/ ~(0 < Len(text))
    \/ chunk_size - overlap > 0

InitChunk ==
    /\ chunks_set = FALSE
    /\ chunks = <<>>
    /\ query_count = 0
    /\ uploaded_count = 0
    /\ last \in { [op |-> "input", text |-> t] : t \in Texts }

ChunkText ==
    \E chunk_size \in 1..MaxChunkSize, overlap \in 0..MaxChunkSize :
        LET text == last.text
            returns == chunk_text_returns(text, chunk_size, overlap)
        IN  /\ SessionUnchanged
            /\ last' = [op |-> "chunk_text", text |-> text,
                        chunk_size |-> chunk_size, overlap |-> overlap,
                        outcome |-> IF returns THEN "returned"
                                    ELSE "never_returns",
                        chunks |-> IF returns
                                   THEN chunk_text(text, chunk_size, overlap)
                                   ELSE <<>>]

SpecChunk == InitChunk /\ [][ChunkText]_vars

----------------------------------------------------------------------------
(* cosine_similarity (embeddings.py) on its own: two vectors of two        *)
(* coordinates, each of -MaxCoord..MaxCoord.                               *)

Vectors == { <<x, y>> : x, y \in (0 - MaxCoord)..MaxCoord }

InitCosine ==
    /\ chunks_set = FALSE
    /\ chunks = <<>>
    /\ query_count = 0
    /\ uploaded_count = 0
    /\ last \in { [op |-> "input", vec1 |-> v, vec2 |-> w] : v, w \in Vectors }

CosineSimilarity ==
    LET r == cosine_similarity(last.vec1, last.vec2)
    IN  /\ SessionUnchanged
        /\ last' = [op |-> "cosine_similarity", vec1 |-> last.vec1,
                    vec2 |-> last.vec2, ok |-> r.ok, score |-> r.score]

SpecCosine == InitCosine /\ [][CosineSimilarity]_vars

----------------------------------------------------------------------------
(* Properties *)

\* the session is as the run found it
SessionKept ==
    /\ chunks_set' = chunks_set
    /\ chunks' = chunks
    /\ query_count' = query_count
    /\ uploaded_count' = uploaded_count

\* the run called no remote provider
NoProviderCall(obs) == obs.embed_calls = 0 /\ obs.chat_calls = 0

\* an ask that got past the guards of the Get Answer handler
Accepted(obs) ==
    /\ obs.op = "ask"
    /\ obs.outcome \in {"answer", "embedding_error", "similarity_error", "chat_error"}

\* the length of a text between its first and its last non-blank character
TrimmedLen(text) ==
    LET solid == { i \in 1..Len(text) : CharAt(text, i) \notin Whitespace }
    IN  IF solid = {} THEN 0
        ELSE 1 + (CHOOSE i \in solid : \A j \in solid : j <= i)
               - (CHOOSE i \in solid : \A j \in solid : i <= j)

\* C1: in every reachable state of a session the index holds at most
\* MAX_CHUNKS_TOTAL chunks.
C1_ChunksBounded == Len(chunks) <= MAX_CHUNKS_TOTAL

\* a second successful ingest left a bulk document in the index, after asks
C1_Witness ==
    /\ last.op = "ingest" /\ last.outcome = "processed"
    /\ Len(chunks) >= BulkStrides
    /\ uploaded_count >= 2
    /\ query_count >= 1

\* C2 (as claimed): an ingest whose batch, counted with the chunks already in
\* the index, exceeds MAX_CHUNKS_TOTAL leaves the index and the counters as
\* they were.
C2_RejectsOverTotal ==
    [][ (last'.op = "ingest" /\ Len(chunks) + last'.n_chunks > MAX_CHUNKS_TOTAL)
        => SessionKept ]_vars

\* C3: a batch is committed only when every chunk of it was embedded; when
\* the provider fails on a chunk, the index, the presence of the index and
\* the uploaded-document counter are as before the ingest.
C3_NoPartialCommit ==
    [][ last'.op = "ingest" =>
          /\ last'.outcome = "embedding_error" =>
                /\ chunks' = chunks
                /\ chunks_set' = chunks_set
                /\ uploaded_count' = uploaded_count
          /\ (chunks' # chunks \/ uploaded_count' # uploaded_count) =>
                /\ last'.outcome = "processed"
                /\ last'.embed_calls = last'.n_chunks
                /\ \A i \in DOMAIN chunks' : "embedding" \in DOMAIN chunks'[i] ]_vars

\* the provider failed in the middle of a batch, with an index in place
C3_Witness ==
    /\ last.op = "ingest" /\ last.outcome = "embedding_error"
    /\ last.embed_calls > 1 /\ last.embed_calls < last.n_chunks
    /\ chunks_set

\* C4 (as claimed): after a successful ingest the index is the index before
\* it followed by the chunks of the new batch.
C4_IngestAppends ==
    [][ (last'.op = "ingest" /\ last'.outcome = "processed") =>
          /\ Len(chunks') = Len(chunks) + last'.n_chunks
          /\ SubSeq(chunks', 1, Len(chunks)) = chunks ]_vars

\* C5: the query counter never exceeds MAX_QUERIES_PER_SESSION; at the limit
\* an ask is rejected with no provider call, and only a reset lowers the
\* counter.
C5_QueryLimit ==
    /\ [](query_count <= MAX_QUERIES_PER_SESSION)
    /\ [][ (query_count >= MAX_QUERIES_PER_SESSION /\ last'.op = "ask") =>
             /\ last'.outcome = "query_limit"
             /\ query_count' = query_count
             /\ NoProviderCall(last') ]_vars
    /\ [][ query_count' < query_count => last'.op = "reset" ]_vars

\* an ask was rejected at the limit
C5_Witness ==
    /\ query_count = MAX_QUERIES_PER_SESSION
    /\ last.op = "ask" /\ last.outcome = "query_limit"

\* C6: an accepted ask leaves the query counter one higher, whether it ends
\* with an answer or with a provider error.
C6_CountedAtAcceptance ==
    [][ Accepted(last') => query_count' = query_count + 1 ]_vars

\* the chat provider failed on an accepted ask, after earlier asks
C6_Witness ==
    /\ last.op = "ask" /\ last.outcome = "chat_error"
    /\ query_count >= 2

\* C7: an ask whose trimmed question is shorter than MIN_QUESTION_LENGTH, or
\* made while the index holds no chunk, is rejected; a rejected ask leaves
\* the query counter alone and calls no provider; an ask is accepted only
\* against a non-empty index.
C7_AskRejected ==
    [][ last'.op = "ask" =>
          /\ (TrimmedLen(last'.input) < MIN_QUESTION_LENGTH \/ chunks = <<>>)
                => ~Accepted(last')
          /\ ~Accepted(last') =>
                (query_count' = query_count /\ NoProviderCall(last'))
          /\ Accepted(last') => (chunks_set /\ chunks # <<>>) ]_vars

\* a question of seven characters, three when trimmed, was rejected with an
\* index in place
C7_Witness ==
    /\ last.op = "ask" /\ last.outcome = "question_too_short"
    /\ Len(last.input) >= MIN_QUESTION_LENGTH
    /\ chunks # <<>>

\* C8: an ingest of more than MAX_FILES_PER_UPLOAD files, or with a file
\* larger than MAX_FILE_SIZE_MB, extracts and embeds nothing and leaves the
\* index and both counters as they were.
C8_UploadGuards ==
    [][ (/\ last'.op = "ingest"
         /\ LET files == UploadList[last'.input]
            IN  \/ Len(files) > MAX_FILES_PER_UPLOAD
                \/ \E i \in DOMAIN files :
                      files[i].size > MAX_FILE_SIZE_MB * BYTES_PER_MB)
        => (/\ SessionKept
            /\ last'.extract_calls = 0
            /\ NoProviderCall(last')) ]_vars

\* four files were refused in a session with an index and a query made
C8_Witness ==
    /\ last.op = "ingest" /\ last.outcome = "too_many_files"
    /\ chunks_set
    /\ query_count >= 1

\* C9: a reset leaves no index and both counters at zero; an ask made while
\* there is no index is rejected for that reason, with no provider call.
C9_ResetEmpties ==
    /\ [][ last'.op = "reset" =>
             /\ ~chunks_set' /\ chunks' = <<>>
             /\ query_count' = 0 /\ uploaded_count' = 0 ]_vars
    /\ [][ (last'.op = "ask" /\ ~chunks_set) =>
             /\ last'.outcome = "no_index"
             /\ SessionKept
             /\ NoProviderCall(last') ]_vars

\* the session has been reset
C9_Witness ==
    /\ last.op = "reset"
    /\ ~chunks_set /\ query_count = 0 /\ uploaded_count = 0

\* the score of corpus chunk i against the question embedding of the run
ScoreOf(i) == cosine_similarity(last.question_embedding, chunks[i].embedding).score
\* the corpus position of the j-th retrieved chunk
Picked(j) == last.top_chunks[j].chunk.chunk_id + 1

\* C10: over a non-empty corpus, retrieval returns min(top_k, len(corpus))
\* distinct chunks, by descending score, chunks of equal score in corpus
\* order, and no chunk left out scores higher than one returned.
C10_TopK ==
    (last.op = "retrieve" /\ last.ok /\ chunks # <<>>) =>
        LET n == Len(last.top_chunks)
        IN  /\ n = Min(last.top_k, Len(chunks))
            /\ \A j \in 1..n : Picked(j) \in DOMAIN chunks
            /\ \A j, k \in 1..n : j < k =>
                  /\ Picked(j) # Picked(k)
                  /\ ~ScoreLess(ScoreOf(Picked(j)), ScoreOf(Picked(k)))
                  /\ ScoreEq(ScoreOf(Picked(j)), ScoreOf(Picked(k)))
                        => Picked(j) < Picked(k)
            /\ \A i \in DOMAIN chunks :
                  (\A j \in 1..n : Picked(j) # i) =>
                      \A j \in 1..n : ~ScoreLess(ScoreOf(Picked(j)), ScoreOf(i))

\* two of three chunks were returned, their scores equal though their
\* embeddings differ
C10_Witness ==
    /\ last.op = "retrieve" /\ last.ok
    /\ Len(chunks) = 3 /\ last.top_k = 2
    /\ Len(last.top_chunks) = 2
    /\ ScoreEq(ScoreOf(Picked(1)), ScoreOf(Picked(2)))
    /\ chunks[Picked(1)].embedding # chunks[Picked(2)].embedding

\* C11 (as claimed): answer_question over an empty corpus ends in an error
\* and does not call the chat-completion provider.
C11_EmptyCorpusIsAnError ==
    [][ (last'.op = "answer_question" /\ chunks = <<>>) =>
          (last'.outcome # "answer" /\ last'.chat_calls = 0) ]_vars

\* the k-th window of a text for a stride: it starts at (k - 1) * stride
WindowOf(text, chunk_size, stride, k) ==
    SubSeq(text, (k - 1) * stride + 1,
           Min((k - 1) * stride + chunk_size, Len(text)))

\* the number of starts 0, stride, 2 * stride, ... below len(text)
WindowCount(text, stride) == (Len(text) + stride - 1) \div stride

\* the windows that are not whitespace only
SolidWindows(text, chunk_size, stride) ==
    { k \in 1..WindowCount(text, stride) :
        TrimmedLen(WindowOf(text, chunk_size, stride, k)) > 0 }

\* C12: with chunk_size > 0 and 0 <= overlap < chunk_size, chunk_text
\* returns; the chunks it returns are the windows text[start:start+chunk_size]
\* for the starts 0, s, 2s, ... below len(text) (s = chunk_size - overlap)
\* that are not whitespace only, in the order of their starts; there are at
\* most ceil(len(text)/s) of them, and exactly that many when no window is
\* whitespace only.
C12_ChunkWindows ==
    (last.op = "chunk_text" /\ last.chunk_size > 0 /\ last.overlap >= 0
        /\ last.overlap < last.chunk_size) =>
        LET text == last.text
            size == last.chunk_size
            s == last.chunk_size - last.overlap
            solid == SolidWindows(text, size, s)
            Rank(k) == Cardinality({ j \in solid : j <= k })
        IN  /\ last.outcome = "returned"
            /\ Len(last.chunks) = Cardinality(solid)
            /\ \A k \in solid : last.chunks[Rank(k)] = WindowOf(text, size, s, k)
            /\ \A j \in DOMAIN last.chunks : TrimmedLen(last.chunks[j]) > 0
            /\ Len(last.chunks) <= WindowCount(text, s)
            /\ (solid = 1..WindowCount(text, s))
                  => Len(last.chunks) = WindowCount(text, s)

\* overlapping windows, one of them whitespace only and left out, and
\* chunks returned before and after it
C12_Witness ==
    /\ last.op = "chunk_text" /\ last.outcome = "returned"
    /\ last.overlap >= 1 /\ last.overlap < last.chunk_size
    /\ Len(last.chunks) >= 2
    /\ LET s == last.chunk_size - last.overlap
           solid == SolidWindows(last.text, last.chunk_size, s)
       IN  \E k \in 1..WindowCount(last.text, s) :
              /\ k \notin solid
              /\ \E j \in solid : j < k
              /\ \E j \in solid : j > k

\* C13 (as claimed): chunk_text called with chunk_size <= overlap ends in an
\* InvalidConfiguration error, whatever the text.
C13_InvalidConfiguration ==
    (last.op = "chunk_text" /\ last.chunk_size <= last.overlap) =>
        last.outcome = "invalid_configuration"

\* C14 (as claimed): for a text shorter than chunk_size and an overlap below
\* chunk_size, chunk_text returns one chunk when the text has a non-blank
\* character and none otherwise.
C14_ShortTextOneChunk ==
    (last.op = "chunk_text" /\ last.overlap < last.chunk_size
        /\ Len(last.text) < last.chunk_size) =>
        /\ last.outcome = "returned"
        /\ Len(last.chunks) = IF TrimmedLen(last.text) > 0 THEN 1 ELSE 0

\* a file of a selection is skipped: the PDF library gives no text for it, or
\* fewer than MIN_TEXT_LENGTH characters between the blanks at its ends
SkippedFile(f) ==
    \/ ~f.readable
    \/ Len(strip(JoinPages(f.pages, ""))) < MIN_TEXT_LENGTH

\* C15: a file with no text or too little of it does not fail the batch it
\* is in: when another file of the selection has text the ingest goes on to
\* the embedding, and once committed the index holds embedded chunks of
\* every file that has text and no chunk of a skipped file.
C15_SkipsWithoutFailing ==
    [][ last'.op = "ingest" =>
          LET files == UploadList[last'.input]
              skipped == { i \in DOMAIN files : SkippedFile(files[i]) }
              kept == DOMAIN files \ skipped
          IN  /\ (skipped # {} /\ kept # {}) =>
                    last'.outcome \notin {"no_valid_content", "no_files"}
              /\ (last'.outcome \in {"processed", "embedding_error"}
                    /\ skipped # {}) => last'.embed_calls > 0
              /\ last'.outcome = "processed" =>
                    /\ \A i \in skipped : \A j \in DOMAIN chunks' :
                          chunks'[j].source # files[i].name
                    /\ \A i \in kept : \E j \in DOMAIN chunks' :
                          /\ chunks'[j].source = files[i].name
                          /\ "embedding" \in DOMAIN chunks'[j] ]_vars

\* a selection with a skipped file between two files with text was
\* committed: the index holds the chunks of the two
C15_Witness ==
    /\ last.op = "ingest" /\ last.outcome = "processed"
    /\ LET files == UploadList[last.input]
       IN  /\ Len(files) = 3
           /\ SkippedFile(files[2])
           /\ ~SkippedFile(files[1]) /\ ~SkippedFile(files[3])
           /\ { chunks[j].source : j \in DOMAIN chunks }
                 = { files[1].name, files[3].name }

\* C16: in every reachable state of a session every chunk of the index has
\* an embedding.
C16_IndexEmbedded ==
    \A i \in DOMAIN chunks :
        /\ "embedding" \in DOMAIN chunks[i]
        /\ Len(chunks[i].embedding) > 0

\* an ask was answered from an index of several embedded chunks
C16_Witness ==
    /\ last.op = "ask" /\ last.outcome = "answer"
    /\ Len(chunks) >= 2
    /\ \A i \in DOMAIN chunks : "embedding" \in DOMAIN chunks[i]

\* every coordinate of the vector is zero
ZeroVector(v) == \A i \in DOMAIN v : v[i] = 0

\* C17: cosine_similarity raises, and returns no score, when its first or
\* its second argument has magnitude zero.
C17_ZeroMagnitudeRaises ==
    (last.op = "cosine_similarity"
        /\ (ZeroVector(last.vec1) \/ ZeroVector(last.vec2))) => ~last.ok

\* the call was refused for its second argument alone
C17_Witness ==
    /\ last.op = "cosine_similarity" /\ ~last.ok
    /\ ~ZeroVector(last.vec1) /\ ZeroVector(last.vec2)

\* C18 (as claimed): the score cosine_similarity returns for two non-zero
\* vectors is at least 0 and at most 1.
C18_ScoreInUnitInterval ==
    (last.op = "cosine_similarity" /\ last.ok) =>
        /\ ~ScoreLess(last.score, Score(0, 1))
        /\ ~ScoreLess(Score(1, 1), last.score)

\* C19 (as claimed): the uploaded-document counter never exceeds
\* MAX_FILES_PER_UPLOAD.
C19_UploadedCountBounded == uploaded_count <= MAX_FILES_PER_UPLOAD

\* C20: an ask, whether rejected, answered or failed by a provider, leaves
\* the index, its presence and the uploaded-document counter as they were;
\* the index changes only in a committed ingest and in a reset.
C20_AskKeepsIndex ==
    /\ [][ last'.op = "ask" =>
             /\ chunks' = chunks
             /\ chunks_set' = chunks_set
             /\ uploaded_count' = uploaded_count ]_vars
    /\ [][ (chunks' # chunks \/ chunks_set' # chunks_set) =>
             \/ last'.op = "reset"
             \/ (last'.op = "ingest" /\ last'.outcome = "processed") ]_vars

\* the embedding provider failed on an ask over an index of several files
C20_Witness ==
    /\ last.op = "ask" /\ last.outcome = "embedding_error"
    /\ uploaded_count >= 2
    /\ Len(chunks) >= 2

====
